---- MODULE Spec2Model ----
(***************************************************************************)
(* Model of revel_data_logging: the REVELLogger emitter (persistent        *)
(* context, scope enter/exit, one-shot message overrides, redirection of   *)
(* the two global output streams) and the ContextLogger adapter.           *)
(*                                                                         *)
(* A Python value is a record [cls, s, d]: cls is the class name, s the    *)
(* text payload (of a str, an int literal or an exception), d the payload  *)
(* of a dict: a sequence of <<key, value>> pairs with unique keys, in      *)
(* insertion order (Python dicts keep insertion order).                    *)
(*                                                                         *)
(* log is the sequence of records the emitters hand to logging.Logger:     *)
(* level, msg and extra are the LogRecord; kw, via and pers record the     *)
(* call that produced it: its keyword arguments, the adapter it went       *)
(* through (0: none) and _extra at that moment.  The emitter's threshold   *)
(* is the constructor default (level=0, NOTSET), at which every severity   *)
(* is enabled.                                                             *)
(***************************************************************************)
EXTENDS Integers, Sequences, FiniteSets, TLC

\* ------------------------------------------------------------------ bounds
MaxLog == 2
MaxParams == 1
MaxBinds == 2
MaxCalls == 1
MaxFmtParams == 1
MaxRendered == 2
MaxInst == 3
MaxPretty == 1
MaxDecor == 2
MaxObserved == 3
MaxScopes == 2

\* ------------------------------------------------------------ Python values
Str(x) == [cls |-> "str", s |-> x, d |-> <<>>]
Num(x) == [cls |-> "int", s |-> x, d |-> <<>>]
NoneV == [cls |-> "NoneType", s |-> "", d |-> <<>>]
Dict(pairs) == [cls |-> "dict", s |-> "", d |-> pairs]
Exc(c, text) == [cls |-> c, s |-> text, d |-> <<>>]
True == [cls |-> "bool", s |-> "True", d |-> <<>>]
False == [cls |-> "bool", s |-> "False", d |-> <<>>]

\* bool(v): None, False, the empty str and the empty dict are false
Truthy(v) ==
    ~ \/ v.cls = "NoneType"
      \/ (v.cls = "str" /\ v.s = "")
      \/ (v.cls = "dict" /\ v.d = <<>>)
      \/ (v.cls = "bool" /\ v.s = "False")

\* ------------------------------------------------------------- Python dicts
Keys(p) == {p[i][1] : i \in 1..Len(p)}
Has(p, k) == k \in Keys(p)
Get(p, k) == LET i == CHOOSE j \in 1..Len(p) : p[j][1] = k IN p[i][2]

\* p[k] = v: a key already present keeps its position and takes the new
\* value; a new key goes to the end
Put(p, k, v) ==
    IF Has(p, k)
    THEN [i \in 1..Len(p) |-> IF p[i][1] = k THEN <<k, v>> ELSE p[i]]
    ELSE Append(p, <<k, v>>)

\* p.pop(k, None)
Pop(p, k) == SelectSeq(p, LAMBDA e : e[1] # k)

\* for k, v in q.items(): p[k] = v
RECURSIVE PutAll(_, _)
PutAll(p, q) == IF q = <<>> THEN p ELSE PutAll(Put(p, q[1][1], q[1][2]), Tail(q))

\* ---------------------------------------------------------------- domains
NoStream == "None"
DevNull == "devnull"
Sinks == {NoStream, "sink_b"}
SysOut == {"tty", "pipe"}
SysErr == {"tty_err", "pipe"}

LoggerName == "base"
Msgs == {Str(""), Str("done")}
FailMsgs == {NoneV, Str(""), Str("oops")}
Excs == {Exc("ValueError", "bad input"), Exc("RuntimeError", "boom")}
InitExtras == {<<>>, <<<<"env", Str("prod")>>>>}
ParamVals == {Str("dev")}
CallKw == {<<>>, <<<<"amount", Num("42")>>>>,
           <<<<"request_id", Str("kw")>>, <<"amount", Num("42")>>>>}
Levels == {"DEBUG", "INFO", "WARNING", "ERROR", "CRITICAL"}
HandlerConfigs == {<<>>, <<"Formatter">>, <<"JSONFormatter">>,
                   <<"None", "PrettyConsoleFormatter">>}
Bindings == {<<"request_id", Str("r1")>>, <<"user_id", Str("u2")>>,
             <<"base", Str("b3")>>}

VARIABLES
    kind,                 \* "REVELLogger" or "Logger": class of the base emitter
    handlers,             \* formatter class of each attached handler
    extra,                \* _extra: None or the persistent context dict
    success_msg, exc_msg, \* configured default messages
    handle_error,         \* _handle_error
    success_bkp, fail_bkp,\* one-shot overrides set by with_message
    outer_logs_disabled,  \* _outer_logs_disabled
    stdout, stderr,       \* _stdout, _stderr: the sinks of this instance
    stdout_bkp, stderr_bkp,
    context_params_name, context_params,
    sys_stdout, sys_stderr, \* the two global streams
    pc,                   \* position of the with block: "idle", "active" (body
                          \* running) or "failing" (the body has raised in_flight)
    in_flight,            \* the exception the body raised, or None
    ctor_stdio,           \* <<_stdout, _stderr>> as __init__ set them
    at_entry,             \* the streams, the sinks and the redirection flag
                          \* at the last call of __enter__
    exit_ret,             \* what the last __exit__ returned
    raised,               \* the exception leaving the last operation, or None
    adapters,             \* the ContextLogger objects built so far
    last_bind,            \* the last ContextLogger construction and its outcome
    log,                  \* the records emitted so far
    _params,              \* _params of the JSONFormatter / PrettyConsoleFormatter
    out,                  \* what the formatter returned (or raised) for each record
    _current_loggers,     \* REVELLogger._current_loggers: the tracked instances
    instances,            \* every REVELLogger object: whether the program still
                          \* refers to it, and its level
    reg_op,               \* the last operation on the registry
    pretty,               \* the options of the PrettyConsoleFormatters: a handler
                          \* with use_color and one without, alike otherwise
    call,                 \* the last call of a decorated function: the decorator,
                          \* its logger and handle_error, the arguments and how far
                          \* the wrapper is
    ret,                  \* what the last finished wrapper returned
    threads,              \* the threads that call add_param: how far each is, and
                          \* the branch its test of _extra chose
    reader,               \* the thread that emits: whether it has read _extra and
                          \* not yet rendered, and the object it then holds
    peers,                \* two further REVELLogger instances of the process: the
                          \* stream fields of each and where its with block is
    steps,                \* the __enter__ and __exit__ calls on them, in order
    first_streams,        \* the global streams before the first of these calls
    frame                 \* _extra and _context_params_name as the last __enter__
                          \* found them, and the pairs add_param has set since

vars == <<kind, handlers, extra, success_msg, exc_msg, handle_error,
          success_bkp, fail_bkp, outer_logs_disabled, stdout, stderr,
          stdout_bkp, stderr_bkp, context_params_name, context_params,
          sys_stdout, sys_stderr, pc, in_flight, ctor_stdio, at_entry, exit_ret,
          raised, adapters, last_bind, log, _params, out,
          _current_loggers, instances, reg_op, pretty, call, ret, threads,
          reader, peers, steps, first_streams, frame>>

configVars == <<kind, handlers, success_msg, exc_msg, handle_error, ctor_stdio>>
scopeVars == <<success_bkp, fail_bkp, pc, in_flight, exit_ret>>
streamVars == <<outer_logs_disabled, stdout, stderr, stdout_bkp, stderr_bkp,
                sys_stdout, sys_stderr, at_entry>>
ctxVars == <<context_params_name, context_params>>
adapterVars == <<adapters, last_bind>>
renderVars == <<_params, out, pretty>>
registryVars == <<_current_loggers, instances, reg_op>>
decorVars == <<call, ret>>
threadVars == <<threads, reader>>
raceVars == <<peers, steps, first_streams>>
otherVars == <<renderVars, registryVars, decorVars, threadVars, raceVars>>
extVars == <<otherVars, frame>>

\* PrettyConsoleFormatter.__init__: the defaults of the keyword arguments
PrettyDefaults == [show_logger_name |-> TRUE, context_indent |-> 4]

\* the threads of the model and the pair each adds
Threads == {"t1", "t2"}
ThreadPair == [t1 |-> <<"region", Str("eu")>>, t2 |-> <<"tenant", Str("acme")>>]

\* the further instances of the model
Peers == {"a", "b"}

\* no further instance is in use
NoPeers ==
    /\ peers = [i \in Peers |->
                   [outer_logs_disabled |-> FALSE, handle_error |-> False,
                    stdout |-> DevNull, stderr |-> DevNull,
                    stdout_bkp |-> NoStream, stderr_bkp |-> NoStream,
                    pc |-> "idle"]]
    /\ steps = <<>>
    /\ first_streams = <<NoStream, NoStream>>

\* no thread has begun
NoThreads ==
    /\ threads = [t \in Threads |-> [pc |-> "idle", branch |-> "none"]]
    /\ reader = [pc |-> "idle", seen |-> NoneV, same |-> FALSE]

\* no decorated function has been called
NoCall ==
    /\ call = [dec |-> "none", logger |-> 0, handle_error |-> FALSE, args |-> <<>>,
               phase |-> "done", result |-> NoneV]
    /\ ret = NoneV

\* the registry before any instance is tracked
UnusedRegistry ==
    /\ _current_loggers = <<>>
    /\ instances = [i \in 1..MaxInst |-> [st |-> "unborn", level |-> 0]]
    /\ reg_op = [op |-> "none", level |-> 0]

\* the state of the parts an emitter alone does not touch: a formatter
\* without default parameters that has rendered nothing
ExtIdle ==
    /\ _params = <<>>
    /\ out = <<>>
    /\ pretty = PrettyDefaults
    /\ NoCall
    /\ NoThreads
    /\ NoPeers
    /\ UnusedRegistry

\* --------------------------------------------------------------- emission
\* REVELLogger.info / warning / error / debug / critical: the persistent
\* context px (_extra) is stored under the logger's name in the call's
\* keyword dict, which becomes the record's extra
RevelRecord(px, level, msg, kw) ==
    [level |-> level, msg |-> msg, extra |-> Put(kw, LoggerName, px),
     kw |-> kw, via |-> 0, pers |-> px]

\* _parse_stdio: a missing sink is a new handle on os.devnull
_parse_stdio(s) == IF s = NoStream THEN DevNull ELSE s

\* ----------------------------------------------------------- construction
\* REVELLogger.__init__ with the given keyword arguments
InitWith(k, hs, ex, he, old, so, se, gout, gerr) ==
    /\ kind = k
    /\ handlers = hs
    /\ extra = IF k = "REVELLogger" /\ ex # <<>> THEN Dict(ex) ELSE NoneV
    /\ success_msg = Str("success")
    /\ exc_msg = Str("failed")
    /\ handle_error = he
    /\ success_bkp = NoneV
    /\ fail_bkp = NoneV
    /\ outer_logs_disabled = old
    /\ stdout = _parse_stdio(so)
    /\ stderr = _parse_stdio(se)
    /\ stdout_bkp = NoStream
    /\ stderr_bkp = NoStream
    /\ sys_stdout = gout
    /\ sys_stderr = gerr
    /\ context_params_name = NoneV
    /\ context_params = Dict(<<>>)
    /\ pc = "idle"
    /\ in_flight = NoneV
    /\ ctor_stdio = <<_parse_stdio(so), _parse_stdio(se)>>
    /\ at_entry = [out |-> NoStream, err |-> NoStream, sink_out |-> NoStream,
                   sink_err |-> NoStream, redirect |-> FALSE]
    /\ exit_ret = "none"
    /\ raised = NoneV
    /\ adapters = <<>>
    /\ last_bind = [target |-> 0, name |-> "", err |-> "none", n |-> 0]
    /\ log = <<>>
    /\ frame = [before |-> NoneV, name |-> NoneV, added |-> <<>>]

\* ------------------------------------------------------------ the actions
\* REVELLogger.with_message
with_message(succ, fail) ==
    /\ kind = "REVELLogger"
    /\ success_bkp' = succ
    /\ fail_bkp' = fail
    /\ raised' = NoneV
    /\ UNCHANGED <<configVars, extVars, extra, pc, in_flight, exit_ret, streamVars,
                   ctxVars, adapterVars, log>>

\* REVELLogger.add_param and __setitem__
add_param(param, value) ==
    /\ kind = "REVELLogger"
    /\ IF extra.cls = "dict" THEN Len(extra.d) < MaxParams \/ Has(extra.d, param)
       ELSE TRUE
    /\ extra' = IF Truthy(extra) THEN Dict(Put(extra.d, param, value))
                ELSE Dict(<<<<param, value>>>>)
    /\ frame' = IF pc = "idle" THEN frame
                ELSE [frame EXCEPT !.added = Put(@, param, value)]
    /\ raised' = NoneV
    /\ UNCHANGED <<configVars, otherVars, scopeVars, streamVars, ctxVars, adapterVars, log>>

\* REVELLogger.with_context_params
with_context_params(name, params) ==
    /\ kind = "REVELLogger"
    /\ context_params_name' = Str(name)
    /\ context_params' = Dict(params)
    /\ raised' = NoneV
    /\ UNCHANGED <<configVars, extVars, extra, scopeVars, streamVars, adapterVars, log>>

\* REVELLogger.disable_outer_logs
disable_outer_logs(so, se) ==
    /\ kind = "REVELLogger"
    /\ outer_logs_disabled' = TRUE
    /\ stdout' = _parse_stdio(so)
    /\ stderr' = _parse_stdio(se)
    /\ raised' = NoneV
    /\ UNCHANGED <<configVars, extVars, extra, scopeVars, stdout_bkp, stderr_bkp,
                   sys_stdout, sys_stderr, at_entry, ctxVars,
                   adapterVars, log>>

\* __enter__, the redirection: the global streams are saved and replaced by
\* the sinks of the instance
EnterStreams ==
    IF outer_logs_disabled
    THEN /\ stdout_bkp' = sys_stdout
         /\ stderr_bkp' = sys_stderr
         /\ sys_stdout' = stdout
         /\ sys_stderr' = stderr
    ELSE UNCHANGED <<stdout_bkp, stderr_bkp, sys_stdout, sys_stderr>>

\* REVELLogger.__enter__: the streams are redirected first; installing the
\* scope-bound context into a missing persistent context raises TypeError,
\* and then the with block is not entered
Enter ==
    /\ kind = "REVELLogger"
    /\ pc = "idle"
    /\ EnterStreams
    /\ at_entry' = [out |-> sys_stdout, err |-> sys_stderr, sink_out |-> stdout,
                    sink_err |-> stderr, redirect |-> outer_logs_disabled]
    /\ IF Truthy(context_params_name)
       THEN IF extra.cls = "dict"
            THEN /\ Len(extra.d) < MaxParams + 1 \/ Has(extra.d, context_params_name.s)
                 /\ extra' = Dict(Put(extra.d, context_params_name.s, context_params))
                 /\ pc' = "active"
                 /\ raised' = NoneV
            ELSE /\ extra' = extra
                 /\ pc' = "idle"
                 /\ raised' = Exc("TypeError", "'NoneType' object does not support item assignment")
       ELSE /\ extra' = extra
            /\ pc' = "active"
            /\ raised' = NoneV
    /\ exit_ret' = "none"
    /\ in_flight' = NoneV
    /\ frame' = [before |-> extra, name |-> context_params_name, added |-> <<>>]
    /\ UNCHANGED <<configVars, otherVars, success_bkp, fail_bkp, outer_logs_disabled,
                   stdout, stderr, ctxVars, adapterVars, log>>

\* the message __exit__ logs: the override when it is true, else the default
ExitMessage(bkp, default) == IF Truthy(bkp) THEN bkp ELSE default

\* the exception metadata __exit__ passes as the keyword exc
ExcInfo(e) == Dict(<<<<"error_type", Str(e.cls)>>, <<"error_value", e>>>>)

\* the body of the with block raises e
Raise(e) ==
    /\ kind = "REVELLogger"
    /\ pc = "active"
    /\ pc' = "failing"
    /\ in_flight' = e
    /\ raised' = NoneV
    /\ UNCHANGED <<configVars, extVars, extra, success_bkp, fail_bkp, exit_ret,
                   streamVars, ctxVars, adapterVars, log>>

\* ExitStreams with the restoration of the second stream forgotten
ExitStreams_no_stderr ==
    IF outer_logs_disabled
    THEN /\ sys_stdout' = stdout_bkp
         /\ sys_stderr' = sys_stderr
         /\ stdout_bkp' = NoStream
         /\ stderr_bkp' = NoStream
    ELSE UNCHANGED <<sys_stdout, sys_stderr, stdout_bkp, stderr_bkp>>

\* __exit__, the restoration: the saved streams are put back and the
\* backups dropped
ExitStreams ==
    IF outer_logs_disabled
    THEN /\ sys_stdout' = stdout_bkp
         /\ sys_stderr' = stderr_bkp
         /\ stdout_bkp' = NoStream
         /\ stderr_bkp' = NoStream
    ELSE UNCHANGED <<sys_stdout, sys_stderr, stdout_bkp, stderr_bkp>>

\* REVELLogger.__exit__(exc_type, exc_val, exc_tb), called with the exception
\* the body raised, or with None.  Removing the scope-bound context from a
\* missing persistent context raises AttributeError before anything is
\* logged; otherwise the with statement swallows the body's exception when
\* the returned value is true and lets it propagate when it is false.
Exit ==
    /\ kind = "REVELLogger"
    /\ pc \in {"active", "failing"}
    /\ Len(log) < MaxLog
    /\ success_bkp' = NoneV
    /\ fail_bkp' = NoneV
    /\ ExitStreams
    /\ pc' = "idle"
    /\ in_flight' = NoneV
    /\ IF Truthy(context_params_name) /\ extra.cls # "dict"
       THEN /\ raised' = Exc("AttributeError", "'NoneType' object has no attribute 'pop'")
            /\ exit_ret' = "raised"
            /\ UNCHANGED <<extra, ctxVars, log>>
       ELSE LET px == IF Truthy(context_params_name)
                      THEN Dict(Pop(extra.d, context_params_name.s))
                      ELSE extra
            IN /\ extra' = px
               /\ IF Truthy(context_params_name)
                  THEN /\ context_params_name' = NoneV
                       /\ context_params' = NoneV
                  ELSE UNCHANGED ctxVars
               /\ log' = Append(log,
                     IF in_flight = NoneV
                     THEN RevelRecord(px, "INFO",
                                      ExitMessage(success_bkp, success_msg), <<>>)
                     ELSE RevelRecord(px, IF Truthy(handle_error) THEN "WARNING" ELSE "ERROR",
                                      ExitMessage(fail_bkp, exc_msg),
                                      <<<<"exc", ExcInfo(in_flight)>>>>))
               /\ exit_ret' = handle_error.s
               /\ raised' = IF Truthy(handle_error) THEN NoneV ELSE in_flight
    /\ UNCHANGED <<configVars, extVars, outer_logs_disabled, stdout, stderr,
                   at_entry, adapterVars>>

\* a direct call of info / warning / error / debug / critical
Emit(level, msg, kw) ==
    /\ kind = "REVELLogger"
    /\ Len(log) < MaxCalls
    /\ log' = Append(log, RevelRecord(extra, level, msg, kw))
    /\ raised' = NoneV
    /\ UNCHANGED <<configVars, extVars, extra, scopeVars, streamVars, ctxVars, adapterVars>>

\* ------------------------------------------------------ the ContextLogger
\* the attributes of a handler's formatter: none without a formatter,
\* logging.Formatter has no _params and no add_param, JSONFormatter and
\* PrettyConsoleFormatter set _params and define add_param
Attrs(formatter) ==
    CASE formatter = "None" -> {}
      [] formatter = "Formatter" -> {"format", "formatTime"}
      [] formatter \in {"JSONFormatter", "PrettyConsoleFormatter"} ->
             {"format", "formatTime", "_params", "add_param"}

\* isinstance(formatter, _RevelFormatter): a runtime-checkable protocol, met
\* by an object that has every member of the protocol
is_RevelFormatter(formatter) == {"_params", "add_param"} \subseteq Attrs(formatter)

\* has_revel_formatter looking at the first handler only
has_revel_formatter_first(hs) == hs # <<>> /\ is_RevelFormatter(hs[1])

\* ContextLogger.__init__, the loop over logger.handlers
has_revel_formatter(hs) == \E i \in 1..Len(hs) : is_RevelFormatter(hs[i])

\* ContextLogger(logger, name, extra); target 0 is the base emitter, target
\* i > 0 the i-th adapter.  A LoggerAdapter has no attribute handlers, so
\* wrapping an adapter raises AttributeError; the assert raises
\* AssertionError.
Bind(target, name, value) ==
    /\ last_bind.n < MaxBinds
    /\ target \in 0..Len(adapters)
    /\ LET err == IF target > 0 THEN "AttributeError"
                  ELSE IF ~has_revel_formatter(handlers) THEN "AssertionError"
                  ELSE "none"
       IN /\ adapters' = IF err = "none"
                         THEN Append(adapters, [logger |-> target, name |-> name,
                                                extra |-> value])
                         ELSE adapters
          /\ last_bind' = [target |-> target, name |-> name, err |-> err,
                           n |-> last_bind.n + 1]
          /\ raised' = CASE err = "none" -> NoneV
                         [] err = "AttributeError" ->
                              Exc(err, "'ContextLogger' object has no attribute 'handlers'")
                         [] err = "AssertionError" ->
                              Exc(err, "logger must have at least one revel formatter")
    /\ UNCHANGED <<configVars, extVars, extra, scopeVars, streamVars, ctxVars, log>>

\* ContextLogger.process: the call's context, then the bound key, then, over
\* a REVELLogger, the persistent context under the logger's name
process(a, existing) ==
    LET merged == Put(existing, a.name, a.extra)
    IN IF a.logger = 0 /\ kind = "REVELLogger"
       THEN Put(merged, LoggerName, extra)
       ELSE merged

\* LoggerAdapter.log: process, then log of the wrapped object; Logger.log of
\* the base emitter makes the record
RECURSIVE Deliver(_, _)
Deliver(target, ex) ==
    IF target = 0 THEN ex
    ELSE Deliver(adapters[target].logger, process(adapters[target], ex))

\* ContextLogger.info / debug / warning / error / critical through adapter i
AdapterEmit(i, level, msg, kw) ==
    /\ i \in 1..Len(adapters)
    /\ Len(log) < MaxCalls
    /\ log' = Append(log, [level |-> level, msg |-> msg, extra |-> Deliver(i, kw),
                           kw |-> kw, via |-> i, pers |-> extra])
    /\ raised' = NoneV
    /\ UNCHANGED <<configVars, extVars, extra, scopeVars, streamVars, ctxVars, adapterVars>>

InitAdapter ==
    \E k \in {"REVELLogger", "Logger"}, hs \in HandlerConfigs, ex \in InitExtras :
        /\ k = "Logger" => ex = <<>>
        /\ InitWith(k, hs, ex, False, FALSE, NoStream, NoStream, "tty", "tty_err")
        /\ ExtIdle

NextAdapter ==
    \/ \E t \in 0..MaxBinds, b \in Bindings : Bind(t, b[1], b[2])
    \/ \E i \in 1..MaxBinds, level \in Levels, kw \in CallKw :
           AdapterEmit(i, level, Str("hi"), kw)
    \/ \E level \in Levels, kw \in CallKw : Emit(level, Str("hi"), kw)

SpecAdapter == InitAdapter /\ [][NextAdapter]_vars

\* ------------------------------------------------------ the scope machine
InitScope ==
    \E ex \in InitExtras, he \in {True, False} :
        /\ InitWith("REVELLogger", <<"JSONFormatter">>, ex, he, FALSE, NoStream, NoStream,
                    "tty", "tty_err")
        /\ ExtIdle

NextScope ==
    \/ \E s \in Msgs \cup {NoneV}, f \in FailMsgs : with_message(s, f)
    \/ \E v \in ParamVals : add_param("ctx", v)
    \/ with_context_params("ctx", <<<<"step", Num("1")>>>>)
    \/ Enter
    \/ \E e \in Excs : Raise(e)
    \/ Exit

SpecScope == InitScope /\ [][NextScope]_vars

\* ------------------------------------------------- the stream redirection
InitStreams ==
    \E ex \in InitExtras, old \in BOOLEAN, so \in {NoStream, "sink_a"},
       se \in {NoStream, "sink_a"}, gout \in SysOut, gerr \in SysErr :
        /\ InitWith("REVELLogger", <<"JSONFormatter">>, ex, False, old, so, se,
                    gout, gerr)
        /\ ExtIdle

NextStreams ==
    \/ \E so \in Sinks, se \in Sinks : disable_outer_logs(so, se)
    \/ with_context_params("ctx", <<<<"step", Num("1")>>>>)
    \/ Enter
    \/ Raise(Exc("ValueError", "bad input"))
    \/ Exit

SpecStreams == InitStreams /\ [][NextStreams]_vars

\* ------------------------------------------------------ the JSONFormatter
\* further Python values: a list or tuple (d holds <<index, item>> pairs)
\* and objects of classes json does not know; s is what str(o) returns
List(items) == [cls |-> "list", s |-> "", d |-> items]
Obj(c, text) == [cls |-> c, s |-> text, d |-> <<>>]

\* the class of a dict key: the keys "(1, 2)" and "(3,)" are tuples, every
\* other key of the model is a str
TupleKeys == {"(1, 2)", "(3,)"}
KeyClass(k) == IF k \in TupleKeys THEN "tuple" ELSE "str"

\* classes of the model whose objects define __json__, and what it returns
JsonClasses == {"Point"}
__json__(o) == Dict(<<<<"x", Num(o.s)>>>>)

\* datetime.isoformat(): str(datetime) with the separator T
isoformat(o) ==
    CASE o.s = "2026-01-02 03:04:05" -> "2026-01-02T03:04:05"
      [] OTHER -> o.s

\* serde.json.json_serialize
json_serialize(o) ==
    IF o.cls = "datetime" THEN Str(isoformat(o))
    ELSE IF o.cls \in JsonClasses THEN __json__(o)
    ELSE Str(o.s)

\* the exceptions json.dumps raises
JsonErrors == {"TypeError", "ValueError"}
Failed(j) == j.cls \in JsonErrors

\* the first failure among the encoded items of a container, or none
FirstFailed(js) ==
    IF \E i \in 1..Len(js) : Failed(js[i][2])
    THEN js[CHOOSE i \in 1..Len(js) :
                /\ Failed(js[i][2])
                /\ \A j \in 1..(i - 1) : ~Failed(js[j][2])][2]
    ELSE NoneV

\* json.dumps(v, ensure_ascii=False, default=json_serialize): the JSON
\* document written, as a tree of string / number / true / false / null /
\* object / array, or the exception raised.  A dict key must be a str, int,
\* float, bool or None (default is not applied to keys); an object of any
\* other class goes through default and the result is encoded in turn.
RECURSIVE dumps(_)
dumps(v) ==
    CASE v.cls = "str" -> [cls |-> "string", s |-> v.s, d |-> <<>>]
      [] v.cls = "int" -> [cls |-> "number", s |-> v.s, d |-> <<>>]
      [] v.cls = "bool" -> [cls |-> IF v.s = "True" THEN "true" ELSE "false",
                            s |-> "", d |-> <<>>]
      [] v.cls = "NoneType" -> [cls |-> "null", s |-> "", d |-> <<>>]
      [] v.cls \in {"dict", "list"} ->
             LET js == [i \in 1..Len(v.d) |->
                          <<v.d[i][1],
                            IF v.cls = "dict" /\ KeyClass(v.d[i][1]) # "str"
                            THEN Exc("TypeError",
                                     "keys must be str, int, float, bool or None, not tuple")
                            ELSE dumps(v.d[i][2])>>]
             IN IF FirstFailed(js) # NoneV THEN FirstFailed(js)
                ELSE [cls |-> IF v.cls = "dict" THEN "object" ELSE "array",
                      s |-> "", d |-> js]
      [] OTHER -> dumps(json_serialize(v))

\* Formatter.formatTime(record): the clock is not modelled, every record
\* is created at the same instant
formatTime(r) == Str("2026-11-03 11:27:25,800")

\* LogRecord.getMessage(): str(msg), the emissions of the model pass no
\* positional arguments
getMessage(r) == Str(r.msg.s)

\* JSONFormatter._parse_params: the formatter's parameters, then the
\* record's extra, are written into output
_parse_params(ps, r, output) == PutAll(PutAll(output, ps), r.extra)

\* JSONFormatter.format: output as handed to json.dumps
JSON_output(ps, r) ==
    _parse_params(ps, r, << <<"level", Str(r.level)>>, <<"time", formatTime(r)>>,
                            <<"message", getMessage(r)>> >>)

\* JSONFormatter.format
JSON_format(ps, r) == dumps(Dict(JSON_output(ps, r)))

\* JSONFormatter.add_param
JSON_add_param(name, default) ==
    /\ Len(_params) < MaxFmtParams \/ Has(_params, name)
    /\ _params' = Put(_params, name, default)
    /\ raised' = NoneV
    /\ UNCHANGED <<configVars, extra, scopeVars, streamVars, ctxVars, adapterVars,
                   registryVars, decorVars, threadVars, raceVars, frame, log, out, pretty>>

\* a direct call of info / ... on the REVELLogger whose handler formats the
\* record with the JSONFormatter
JSONEmit(level, msg, kw) ==
    /\ kind = "REVELLogger"
    /\ Len(log) < MaxRendered
    /\ LET r == RevelRecord(extra, level, msg, kw)
       IN /\ log' = Append(log, r)
          /\ out' = Append(out, JSON_format(_params, r))
    /\ raised' = NoneV
    /\ UNCHANGED <<configVars, extra, scopeVars, streamVars, ctxVars, adapterVars,
                   registryVars, decorVars, threadVars, raceVars, frame, _params, pretty>>

\* the same through ContextLogger i
JSONAdapterEmit(i, level, msg, kw) ==
    /\ i \in 1..Len(adapters)
    /\ Len(log) < MaxRendered
    /\ LET r == [level |-> level, msg |-> msg, extra |-> Deliver(i, kw),
                 kw |-> kw, via |-> i, pers |-> extra]
       IN /\ log' = Append(log, r)
          /\ out' = Append(out, JSON_format(_params, r))
    /\ raised' = NoneV
    /\ UNCHANGED <<configVars, extra, scopeVars, streamVars, ctxVars, adapterVars,
                   registryVars, decorVars, threadVars, raceVars, frame, _params, pretty>>

\* keyword arguments of the rendered calls: reserved names, objects json
\* does not know, nested containers, a mapping keyed by a tuple
JSONKw == {<<>>,
           <<<<"message", Str("x")>>>>,
           <<<<"level", Str("y")>>, <<"time", Str("z")>>>>,
           <<<<"amount", Num("42")>>>>,
           <<<<"price", Obj("Decimal", "1.5")>>>>,
           <<<<"at", Obj("datetime", "2026-01-02 03:04:05")>>>>,
           <<<<"where", Obj("Point", "7")>>>>,
           <<<<"items", List(<<<<"0", Dict(<<<<"p", Obj("Point", "7")>>>>)>>,
                               <<"1", Obj("Decimal", "1.5")>>>>)>>>>,
           <<<<"cells", Dict(<<<<"(1, 2)", Str("x")>>>>)>>>>,
           <<<<"deep", List(<<<<"0", Dict(<<<<"(3,)", Num("1")>>>>)>>>>)>>>>}
JSONDefaults == {<<"app", Str("svc")>>, <<"level", Str("dflt")>>}
JSONBindings == {<<"request_id", Str("r1")>>, <<"message", Str("bound")>>}

InitJSON ==
    \E ex \in InitExtras, ps \in {<<>>} \cup {<<x>> : x \in JSONDefaults} :
        /\ InitWith("REVELLogger", <<"JSONFormatter">>, ex, False, FALSE,
                    NoStream, NoStream, "tty", "tty_err")
        /\ _params = ps
        /\ out = <<>>
        /\ pretty = PrettyDefaults
        /\ NoCall
        /\ NoThreads
        /\ NoPeers
        /\ UnusedRegistry

NextJSON ==
    \/ \E x \in JSONDefaults : JSON_add_param(x[1], x[2])
    \/ \E b \in JSONBindings : Bind(0, b[1], b[2])
    \/ \E kw \in JSONKw : JSONEmit("INFO", Str("hi"), kw)
    \/ \E i \in 1..MaxBinds, kw \in JSONKw : JSONAdapterEmit(i, "WARNING", Str("hi"), kw)

SpecJSON == InitJSON /\ [][NextJSON]_vars

\* ------------------------------------- the emitter with scope and adapter
InitCarry ==
    \E ex \in InitExtras :
        /\ InitWith("REVELLogger", <<"JSONFormatter">>, ex, False, FALSE,
                    NoStream, NoStream, "tty", "tty_err")
        /\ ExtIdle

NextCarry ==
    \/ \E k \in {"ctx", "env"}, v \in ParamVals : add_param(k, v)
    \/ with_context_params("ctx", <<<<"step", Num("1")>>>>)
    \/ Enter
    \/ Exit
    \/ Bind(0, "request_id", Str("r1"))
    \/ \E kw \in {<<>>, <<<<"amount", Num("42")>>>>} : Emit("INFO", Str("hi"), kw)
    \/ \E i \in 1..MaxBinds : AdapterEmit(i, "INFO", Str("hi"), <<>>)

SpecCarry == InitCarry /\ [][NextCarry]_vars

\* ------------------------------------------- the registry of REVELLoggers
\* logging._checkLevel: an int is taken as it is, a level name is
\* translated; the argument is the text of the literal
_checkLevel(level) ==
    CASE level = "10" -> 10
      [] level = "30" -> 30
      [] level = "INFO" -> 20
      [] level = "ERROR" -> 40
LevelArgs == {"10", "30", "INFO"}

\* the number of references _current_loggers holds on instance i
Tracked(i) == Cardinality({j \in 1..Len(_current_loggers) : _current_loggers[j] = i})

\* list.remove(x): the first occurrence goes
Remove(q, x) ==
    LET k == CHOOSE j \in 1..Len(q) : q[j] = x /\ \A m \in 1..(j - 1) : q[m] # x
    IN SubSeq(q, 1, k - 1) \o SubSeq(q, k + 1, Len(q))

\* REVELLogger(name, level=...): Logger.__init__ sets the level, the last
\* statement appends the instance to the registry
Construct(i, level) ==
    /\ instances[i].st = "unborn"
    /\ instances' = [instances EXCEPT ![i] = [st |-> "live", level |-> _checkLevel(level)]]
    /\ _current_loggers' = Append(_current_loggers, i)
    /\ reg_op' = [op |-> "construct", level |-> _checkLevel(level)]
    /\ UNCHANGED <<configVars, extra, scopeVars, streamVars, ctxVars, adapterVars,
                   raised, log, renderVars, decorVars, threadVars, raceVars, frame>>

\* the program lets go of its last reference to instance i (del x, the
\* name goes out of scope).  The interpreter calls __del__ only when no
\* reference is left at all, and _current_loggers holds one: then nothing
\* runs and the object stays where it is.  Without that reference __del__
\* runs: it removes the instance from the registry, or raises ValueError
\* (which the interpreter reports and drops) when it is not there.
Dispose(i) ==
    /\ instances[i].st = "live"
    /\ IF Tracked(i) = 0
       THEN /\ instances' = [instances EXCEPT ![i].st = "freed"]
            /\ _current_loggers' = IF Tracked(i) > 0 THEN Remove(_current_loggers, i)
                                   ELSE _current_loggers
       ELSE /\ instances' = [instances EXCEPT ![i].st = "dropped"]
            /\ _current_loggers' = _current_loggers
    /\ reg_op' = [op |-> "dispose", level |-> 0]
    /\ UNCHANGED <<configVars, extra, scopeVars, streamVars, ctxVars, adapterVars,
                   raised, log, renderVars, decorVars, threadVars, raceVars, frame>>

\* REVELLogger.set_level
set_level(level) ==
    /\ instances' = [i \in 1..MaxInst |->
                        IF Tracked(i) > 0
                        THEN [instances[i] EXCEPT !.level = _checkLevel(level)]
                        ELSE instances[i]]
    /\ reg_op' = [op |-> "set_level", level |-> _checkLevel(level)]
    /\ UNCHANGED <<configVars, extra, scopeVars, streamVars, ctxVars, adapterVars,
                   raised, log, renderVars, decorVars, threadVars, raceVars, frame, _current_loggers>>

InitRegistry ==
    /\ InitWith("REVELLogger", <<"JSONFormatter">>, <<>>, False, FALSE,
                NoStream, NoStream, "tty", "tty_err")
    /\ _params = <<>>
    /\ out = <<>>
    /\ pretty = PrettyDefaults
    /\ NoCall
    /\ NoThreads
    /\ NoPeers
    /\ UnusedRegistry

NextRegistry ==
    \/ \E i \in 1..MaxInst, level \in {"10", "ERROR"} : Construct(i, level)
    \/ \E i \in 1..MaxInst : Dispose(i)
    \/ \E level \in LevelArgs : set_level(level)

SpecRegistry == InitRegistry /\ [][NextRegistry]_vars

\* ------------------------------------------- the PrettyConsoleFormatter
\* A text is a non-empty sequence of lines (the text split at its line
\* breaks; the empty text is one empty line) and a line a sequence of
\* atoms: a piece of text, the repr of a value (k is its class, s what
\* str gives), a run of n spaces, or a style code.  The two box-drawing
\* strings are written "bullet" (the corner and dash that open the context
\* block) and "| " (the bar and space of a continuation line).
Txt(x) == [k |-> "txt", s |-> x, n |-> 0]
Sp(m) == [k |-> "sp", s |-> "", n |-> m]
Code(x) == [k |-> "code", s |-> x, n |-> 0]
Repr(v) == [k |-> v.cls, s |-> v.s, n |-> 0]

_RESET == Code("ESC[0m")
_BOLD == Code("ESC[1m")
_DIM == Code("ESC[2m")
_FG_COLORS ==
    [grey |-> Code("ESC[90m"), red |-> Code("ESC[31m"), green |-> Code("ESC[32m"),
     yellow |-> Code("ESC[33m"), blue |-> Code("ESC[34m"),
     magenta |-> Code("ESC[35m"), cyan |-> Code("ESC[36m"),
     white |-> Code("ESC[37m")]
_LEVEL_COLORS ==
    [DEBUG |-> "cyan", INFO |-> "green", WARNING |-> "yellow", ERROR |-> "red",
     CRITICAL |-> "red"]

\* len() of the strings a header is made of; ESC is one character
StrLen(x) ==
    CASE x \in {"ESC[0m", "ESC[1m", "ESC[2m"} -> 4
      [] x \in {"ESC[90m", "ESC[31m", "ESC[32m", "ESC[33m", "ESC[34m", "ESC[35m",
                "ESC[36m", "ESC[37m"} -> 5
      [] x = "2026-11-03 11:27:25,800" -> 23
      [] x \in {"[", "]", ":"} -> 1
      [] x \in {"INFO", "base"} -> 4
      [] x \in {"DEBUG", "ERROR"} -> 5
      [] x = "WARNING" -> 7
      [] x = "CRITICAL" -> 8

\* len(line)
RECURSIVE Width(_)
Width(line) ==
    IF line = <<>> THEN 0
    ELSE (IF line[1].k = "sp" THEN line[1].n ELSE StrLen(line[1].s)) + Width(Tail(line))

\* PrettyConsoleFormatter._color
_color(use_color, text, fg, bold, dim) ==
    IF ~use_color THEN text
    ELSE LET codes == (IF bold THEN <<_BOLD>> ELSE <<>>) \o
                      (IF dim THEN <<_DIM>> ELSE <<>>) \o
                      (IF fg # "None" /\ fg \in DOMAIN _FG_COLORS
                       THEN <<_FG_COLORS[fg]>> ELSE <<>>)
         IN IF codes = <<>> THEN text ELSE codes \o text \o <<_RESET>>

_style_level(uc, levelname) ==
    _color(uc, <<Txt(levelname)>>,
           IF levelname \in DOMAIN _LEVEL_COLORS THEN _LEVEL_COLORS[levelname]
           ELSE "white",
           levelname \in {"WARNING", "ERROR", "CRITICAL"}, FALSE)
_style_time(uc, ts) == _color(uc, <<Txt(ts)>>, "grey", FALSE, TRUE)
_style_logger_name(uc, name) == _color(uc, <<Txt(name)>>, "blue", FALSE, TRUE)
_style_key(uc, key) == _color(uc, <<Txt(key)>>, "grey", TRUE, FALSE)

\* PrettyConsoleFormatter._build_context
_build_context(ps, r) == PutAll(ps, r.extra)

\* str.splitlines() of the messages of the model
splitlines(m) ==
    CASE m = "first\nsecond" -> <<"first", "second">>
      [] m = "a\nb\nc" -> <<"a", "b", "c">>
      [] OTHER -> <<m>>

\* PrettyConsoleFormatter._format_message_block
_format_message_block(uc, header, message) ==
    IF Len(splitlines(message)) = 1
    THEN <<header \o <<Sp(1), Txt(message)>>>>
    ELSE LET lines == splitlines(message)
             continuation_prefix ==
                 <<Sp(Width(header)), Sp(1)>> \o
                 (IF uc THEN _color(uc, <<Txt("| ")>>, "grey", FALSE, TRUE)
                  ELSE <<Txt("| ")>>)
         IN <<header \o <<Sp(1), Txt(lines[1])>>>> \o
            [i \in 1..(Len(lines) - 1) |-> continuation_prefix \o <<Txt(lines[i + 1])>>]

\* PrettyConsoleFormatter._is_scalar
_is_scalar(value) == value.cls \in {"str", "int", "float", "bool", "NoneType"}

\* "\n".join(lines) where each element of lines is a text
RECURSIVE JoinLines(_)
JoinLines(texts) ==
    IF texts = <<>> THEN << <<>> >>
    ELSE IF Len(texts) = 1 THEN texts[1]
    ELSE texts[1] \o JoinLines(Tail(texts))

\* f"[{idx}]"
IndexKey(idx) ==
    CASE idx = "0" -> "[0]"
      [] idx = "1" -> "[1]"
      [] idx = "2" -> "[2]"

\* PrettyConsoleFormatter._format_complex_value; base_indent is a number
\* of spaces
RECURSIVE _format_complex_value(_, _, _, _)
_format_complex_value(uc, value, base_indent, level) ==
    LET indent == Sp(base_indent + 2 * level)
        member(e) ==
            LET styled_key == _style_key(uc, e[1])
            IN IF _is_scalar(e[2])
               THEN << << <<indent>> \o styled_key \o <<Txt("="), Repr(e[2])>> >> >>
               ELSE << << <<indent>> \o styled_key \o <<Txt(":")>> >>,
                       _format_complex_value(uc, e[2], base_indent, level + 1) >>
        RECURSIVE members(_)
        members(d) == IF d = <<>> THEN <<>> ELSE member(d[1]) \o members(Tail(d))
    IN IF value.cls = "dict" THEN JoinLines(members(value.d))
       ELSE IF value.cls = "list"
       THEN JoinLines(members([i \in 1..Len(value.d) |->
                                  <<IndexKey(value.d[i][1]), value.d[i][2]>>]))
       ELSE << <<indent, Repr(value)>> >>

\* the keys of the model in ascending order (the order of str)
KeyOrder == <<"Z", "amount", "app", "base", "cart", "env", "items", "price",
              "request_id", "user">>

\* sorted() with the order reversed
sorted_descending(keys) ==
    LET asc == SelectSeq(KeyOrder, LAMBDA k : k \in keys)
    IN [i \in 1..Len(asc) |-> asc[Len(asc) + 1 - i]]

\* sorted() of a set of keys
sorted(keys) == SelectSeq(KeyOrder, LAMBDA k : k \in keys)

\* PrettyConsoleFormatter._format_context_block: the text appended to the
\* message block, as the lines that follow the line break it starts with;
\* no line at all for the empty text
_format_context_block(uc, context_indent, context) ==
    IF context = <<>> THEN <<>>
    ELSE LET base_indent == Sp(context_indent)
             bullet == IF uc THEN _color(uc, <<Txt("bullet")>>, "grey", FALSE, TRUE)
                       ELSE <<Txt("bullet")>>
             scalars == SelectSeq(context, LAMBDA e : _is_scalar(e[2]))
             complex_items == SelectSeq(context, LAMBDA e : ~_is_scalar(e[2]))
             part(key) == _style_key(uc, key) \o <<Txt("="), Repr(Get(scalars, key))>>
             RECURSIVE parts(_)
             parts(ks) == IF ks = <<>> THEN <<>>
                          ELSE IF Len(ks) = 1 THEN part(ks[1])
                          ELSE part(ks[1]) \o <<Sp(1)>> \o parts(Tail(ks))
             first == IF scalars # <<>>
                      THEN <<base_indent>> \o bullet \o <<Sp(1)>> \o
                           parts(sorted(Keys(scalars)))
                      ELSE <<base_indent>> \o bullet
             block(key) ==
                 << << <<base_indent, Sp(3)>> \o _style_key(uc, key) \o <<Txt(":")>> >>,
                    _format_complex_value(uc, Get(complex_items, key),
                                          context_indent, 2) >>
             RECURSIVE blocks(_)
             blocks(ks) == IF ks = <<>> THEN <<>> ELSE block(ks[1]) \o blocks(Tail(ks))
         IN JoinLines(<< <<first>> >> \o blocks(sorted(Keys(complex_items))))

\* PrettyConsoleFormatter.format
Pretty_format(uc, f, ps, r) ==
    LET context == _build_context(ps, r)
        parts == <<_style_time(uc, formatTime(r).s),
                   <<Txt("[")>> \o _style_level(uc, r.level) \o <<Txt("]")>>>> \o
                 (IF f.show_logger_name
                  THEN <<_style_logger_name(uc, LoggerName) \o <<Txt(":")>>>>
                  ELSE <<>>)
        header == IF Len(parts) = 2 THEN parts[1] \o <<Sp(1)>> \o parts[2]
                  ELSE parts[1] \o <<Sp(1)>> \o parts[2] \o <<Sp(1)>> \o parts[3]
    IN _format_message_block(uc, header, getMessage(r).s) \o
       _format_context_block(uc, f.context_indent, context)

\* Logger.info(msg, extra={"extra": x}) on a plain logging.Logger: the
\* LogRecord gets the attribute extra = x
LoggerRecord(level, msg, x) ==
    [level |-> level, msg |-> msg, extra |-> x, kw |-> x, via |-> 0, pers |-> NoneV]

\* an emission on the base emitter, which has two handlers with a
\* PrettyConsoleFormatter each, one with use_color and one without
PrettyEmit(level, msg, x) ==
    /\ Len(log) < MaxPretty
    /\ LET r == IF kind = "REVELLogger" THEN RevelRecord(extra, level, msg, x)
                ELSE LoggerRecord(level, msg, x)
       IN /\ log' = Append(log, r)
          /\ out' = Append(out, [color |-> Pretty_format(TRUE, pretty, _params, r),
                                 plain |-> Pretty_format(FALSE, pretty, _params, r)])
    /\ raised' = NoneV
    /\ UNCHANGED <<configVars, extra, scopeVars, streamVars, ctxVars, adapterVars,
                   registryVars, decorVars, threadVars, raceVars, frame, _params, pretty>>

\* PrettyConsoleFormatter.add_param, on both formatters
Pretty_add_param(name, default) ==
    /\ Len(_params) < MaxFmtParams \/ Has(_params, name)
    /\ _params' = Put(_params, name, default)
    /\ raised' = NoneV
    /\ UNCHANGED <<configVars, extra, scopeVars, streamVars, ctxVars, adapterVars,
                   registryVars, decorVars, threadVars, raceVars, frame, log, out, pretty>>

PrettyMsgs == {Str("hi"), Str("first\nsecond"), Str("a\nb\nc")}
PrettyKw == {<<>>,
             <<<<"user", Str("u2")>>, <<"amount", Num("42")>>, <<"Z", NoneV>>>>,
             <<<<"items", List(<<<<"0", True>>, <<"1", Dict(<<>>)>>>>)>>,
               <<"cart", Dict(<<<<"user", Str("u2")>>,
                                <<"price", Obj("Decimal", "1.5")>>>>)>>>>,
             <<<<"price", Obj("Decimal", "1.5")>>, <<"amount", Num("42")>>,
               <<"items", List(<<>>)>>>>}

InitTree ==
    \E k \in {"REVELLogger", "Logger"}, ex \in InitExtras,
       sn \in BOOLEAN, ci \in {0, 4} :
        /\ k = "Logger" => ex = <<>>
        /\ InitWith(k, <<"PrettyConsoleFormatter", "PrettyConsoleFormatter">>, ex,
                    False, FALSE, NoStream, NoStream, "tty", "tty_err")
        /\ _params = <<>>
        /\ out = <<>>
        /\ pretty = [show_logger_name |-> sn, context_indent |-> ci]
        /\ NoCall
        /\ NoThreads
        /\ NoPeers
        /\ UnusedRegistry

NextTree ==
    \/ Pretty_add_param("app", Str("svc"))
    \/ \E level \in {"INFO", "ERROR"}, msg \in PrettyMsgs, x \in PrettyKw :
           PrettyEmit(level, msg, x)

SpecTree == InitTree /\ [][NextTree]_vars

\* ------------------------------------------------------- the decorators
\* the decorated function is def f(a, b=2); a call passes positional
\* arguments, and its body returns a value or raises
FuncName == "f"
CallArgs == {<<>>, <<Num("1")>>, <<Num("1"), Num("5")>>}
Outcomes == {Num("3"), NoneV, Exc("ValueError", "bad"), Exc("KeyboardInterrupt", "")}

\* the classes of the model that derive from BaseException, and those that
\* derive from Exception
BaseExceptions == {"ValueError", "TypeError", "KeyboardInterrupt"}
Exceptions == {"ValueError", "TypeError"}

\* _get_args: signature.bind(*args) raises TypeError when a is missing;
\* apply_defaults fills in b
_get_args(args) ==
    IF Len(args) = 0 THEN Exc("TypeError", "missing a required argument: 'a'")
    ELSE Dict(<<<<"a", args[1]>>, <<"b", IF Len(args) > 1 THEN args[2] ELSE Num("2")>>>>)

\* func(*args, **kwargs): the interpreter raises TypeError when a is
\* missing, otherwise the body runs and does what outcome says
func(args, outcome) ==
    IF Len(args) = 0
    THEN Exc("TypeError", "f() missing 1 required positional argument: 'a'")
    ELSE outcome

\* f"func {func.__name__} called"
CalledMessage(name) == CASE name = "f" -> Str("func f called")

\* logger.info / logger.error(msg, extra={"extra": payload}) as the
\* decorators call it, on logger t (0: the base emitter, i > 0: the i-th
\* ContextLogger).  logging.Logger takes extra as the attributes of the
\* record; REVELLogger and ContextLogger take it as one more keyword of
\* **extra.
LogCall(t, level, msg, payload) ==
    LET kws == <<<<"extra", Dict(<<<<"extra", Dict(payload)>>>>)>>>>
    IN IF t > 0
       THEN [level |-> level, msg |-> msg, extra |-> Deliver(t, kws), kw |-> kws,
             via |-> t, pers |-> extra]
       ELSE IF kind = "REVELLogger" THEN RevelRecord(extra, level, msg, kws)
       ELSE LoggerRecord(level, msg, payload)

\* a call of the wrapper loggable(logger)(f): the arguments are
\* bound and logged, then the body is entered
LoggableCall(t, args) ==
    /\ call.phase = "done"
    /\ t \in 0..Len(adapters)
    /\ Len(log) < MaxDecor
    /\ LET arg_dict == _get_args(args)
       IN IF arg_dict.cls = "TypeError"
          THEN /\ raised' = arg_dict
               /\ log' = log
               /\ call' = [dec |-> "loggable", logger |-> t, handle_error |-> FALSE,
                           args |-> args, phase |-> "done", result |-> NoneV]
          ELSE /\ raised' = NoneV
               /\ log' = Append(log, LogCall(t, "INFO", CalledMessage(FuncName),
                                             <<<<"args", arg_dict>>>>))
               /\ call' = [dec |-> "loggable", logger |-> t, handle_error |-> FALSE,
                           args |-> args, phase |-> "body", result |-> NoneV]
    /\ ret' = NoneV
    /\ UNCHANGED <<configVars, extra, scopeVars, streamVars, ctxVars, adapterVars,
                   registryVars, renderVars, threadVars, raceVars, frame>>

\* the body of the function under loggable returns or raises
LoggableBody(outcome) ==
    /\ call.dec = "loggable" /\ call.phase = "body"
    /\ LET r == func(call.args, outcome)
       IN /\ call' = [call EXCEPT !.phase = "done", !.result = r]
          /\ ret' = IF r.cls \in BaseExceptions THEN NoneV ELSE r
          /\ raised' = IF r.cls \in BaseExceptions THEN r ELSE NoneV
    /\ UNCHANGED <<configVars, extra, scopeVars, streamVars, ctxVars, adapterVars,
                   registryVars, renderVars, threadVars, raceVars, frame, log>>

\* a call of the wrapper error_logs(logger, handle_error)(f) makes enters
\* the try statement
ErrorLogsCall(t, he, args) ==
    /\ call.phase = "done"
    /\ t \in 0..Len(adapters)
    /\ Len(log) < MaxDecor
    /\ call' = [dec |-> "error_logs", logger |-> t, handle_error |-> he,
                args |-> args, phase |-> "body", result |-> NoneV]
    /\ ret' = NoneV
    /\ raised' = NoneV
    /\ UNCHANGED <<configVars, extra, scopeVars, streamVars, ctxVars, adapterVars,
                   registryVars, renderVars, threadVars, raceVars, frame, log>>

\* the rest of the wrapper of error_logs: the function returns or raises,
\* and except Exception binds the arguments, logs, and returns None or
\* raises the exception again
ErrorLogsBody(outcome) ==
    /\ call.dec = "error_logs" /\ call.phase = "body"
    /\ LET e == func(call.args, outcome)
           arg_dict == _get_args(call.args)
       IN /\ call' = [call EXCEPT !.phase = "done", !.result = e]
          /\ IF e.cls \notin Exceptions
             THEN /\ log' = log
                  /\ ret' = IF e.cls \in BaseExceptions THEN NoneV ELSE e
                  /\ raised' = IF e.cls \in BaseExceptions THEN e ELSE NoneV
             ELSE IF arg_dict.cls = "TypeError"
             THEN /\ log' = log
                  /\ ret' = NoneV
                  /\ raised' = arg_dict
             ELSE /\ log' = Append(log, LogCall(call.logger, "ERROR", Str(e.s),
                                                <<<<"function_name", Str(FuncName)>>,
                                                  <<"args", arg_dict>>>>))
                  /\ ret' = NoneV
                  /\ raised' = IF call.handle_error THEN NoneV ELSE e
    /\ UNCHANGED <<configVars, extra, scopeVars, streamVars, ctxVars, adapterVars,
                   registryVars, renderVars, threadVars, raceVars, frame>>

InitDecor ==
    \E k \in {"REVELLogger", "Logger"}, ex \in InitExtras :
        /\ k = "Logger" => ex = <<>>
        /\ InitWith(k, <<"JSONFormatter">>, ex, False, FALSE, NoStream, NoStream,
                    "tty", "tty_err")
        /\ ExtIdle

NextDecor ==
    \/ Bind(0, "request_id", Str("r1"))
    \/ \E t \in 0..MaxBinds, args \in CallArgs : LoggableCall(t, args)
    \/ \E o \in Outcomes : LoggableBody(o)
    \/ \E t \in 0..MaxBinds, he \in BOOLEAN, args \in CallArgs : ErrorLogsCall(t, he, args)
    \/ \E o \in Outcomes : ErrorLogsBody(o)

SpecDecor == InitDecor /\ [][NextDecor]_vars

\* ------------------------------------------------ add_param from threads
\* Thread t runs add_param(param, value) for its pair.  The interpreter
\* may switch threads between the test of self._extra and the statement of
\* the branch taken; each of the two is one step.

\* if self._extra:
T_Check(t) ==
    /\ threads[t].pc = "idle"
    /\ threads' = [threads EXCEPT ![t] =
                      [pc |-> "checked",
                       branch |-> IF Truthy(extra) THEN "setitem" ELSE "assign"]]
    /\ UNCHANGED <<configVars, extra, scopeVars, streamVars, ctxVars, adapterVars,
                   registryVars, renderVars, decorVars, raceVars, frame, raised, log, reader>>

\* self._extra[param] = value, which changes the dict in place, or
\* self._extra = {param: value}, which makes _extra a new dict: a reader
\* that holds the old object keeps it as it is now
T_Write(t) ==
    /\ threads[t].pc = "checked"
    /\ threads' = [threads EXCEPT ![t].pc = "done"]
    /\ IF threads[t].branch = "setitem"
       THEN /\ extra' = Dict(Put(extra.d, ThreadPair[t][1], ThreadPair[t][2]))
            /\ reader' = reader
       ELSE /\ extra' = Dict(<<ThreadPair[t]>>)
            /\ reader' = IF reader.same
                         THEN [reader EXCEPT !.seen = extra, !.same = FALSE]
                         ELSE reader
    /\ UNCHANGED <<configVars, scopeVars, streamVars, ctxVars, adapterVars,
                   registryVars, renderVars, decorVars, raceVars, frame, raised, log>>

\* REVELLogger.info, first half: extra[self.name] = self._extra puts the
\* object _extra refers to (or None) into the keywords of the record
R_Read ==
    /\ reader.pc = "idle"
    /\ Len(log) < MaxObserved
    /\ reader' = [pc |-> "read", seen |-> extra, same |-> extra.cls = "dict"]
    /\ UNCHANGED <<configVars, extra, scopeVars, streamVars, ctxVars, adapterVars,
                   registryVars, renderVars, decorVars, raceVars, frame, raised, log, threads>>

\* REVELLogger.info, second half: Logger.info makes the record and the
\* handler renders it, with the content the object has by then
R_Render ==
    /\ reader.pc = "read"
    /\ log' = Append(log, RevelRecord(IF reader.same THEN extra ELSE reader.seen,
                                      "INFO", Str("hi"), <<>>))
    /\ reader' = [pc |-> "idle", seen |-> NoneV, same |-> FALSE]
    /\ UNCHANGED <<configVars, extra, scopeVars, streamVars, ctxVars, adapterVars,
                   registryVars, renderVars, decorVars, raceVars, frame, raised, threads>>

InitThreads ==
    \E ex \in InitExtras :
        /\ InitWith("REVELLogger", <<"JSONFormatter">>, ex, False, FALSE,
                    NoStream, NoStream, "tty", "tty_err")
        /\ ExtIdle

NextThreads ==
    \/ \E t \in Threads : T_Check(t)
    \/ \E t \in Threads : T_Write(t)
    \/ R_Read
    \/ R_Render

SpecThreads == InitThreads /\ [][NextThreads]_vars

\* ------------------------------------------- two scopes on the same streams
\* Two REVELLogger instances, "a" and "b", built without persistent context
\* and never given scope-bound context, in one process: they share
\* sys.stdout and sys.stderr and nothing else.

\* _parse_stdio of instance i: a missing sink is a handle on os.devnull that
\* this instance opens for itself
PeerSink(i, s) == IF s = NoStream THEN DevNull \o "@" \o i ELSE s

\* the record instance i emits: its (absent) persistent context under its name
PeerRecord(i, level, msg, kw) ==
    [RevelRecord(NoneV, level, msg, kw) EXCEPT !.extra = Put(kw, i, NoneV)]

\* the __enter__ calls made so far
Entered == Cardinality({k \in 1..Len(steps) : steps[k][1] = "enter"})

\* __enter__ of instance i: with redirection enabled the global streams are
\* saved in the instance and replaced by its sinks
PeerEnter(i) ==
    /\ peers[i].pc = "idle"
    /\ Entered < MaxScopes
    /\ IF peers[i].outer_logs_disabled
       THEN /\ peers' = [peers EXCEPT ![i].stdout_bkp = sys_stdout,
                                      ![i].stderr_bkp = sys_stderr,
                                      ![i].pc = "active"]
            /\ sys_stdout' = peers[i].stdout
            /\ sys_stderr' = peers[i].stderr
       ELSE /\ peers' = [peers EXCEPT ![i].pc = "active"]
            /\ UNCHANGED <<sys_stdout, sys_stderr>>
    /\ steps' = Append(steps, <<"enter", i>>)
    /\ raised' = NoneV
    /\ UNCHANGED <<configVars, extra, scopeVars, outer_logs_disabled, stdout, stderr,
                   stdout_bkp, stderr_bkp, at_entry, ctxVars, adapterVars,
                   renderVars, registryVars, decorVars, threadVars, frame, first_streams,
                   log>>

\* PeerExitStreams that puts nothing back
PeerExitStreams_keep(i) ==
    /\ peers' = [peers EXCEPT ![i].stdout_bkp = NoStream,
                              ![i].stderr_bkp = NoStream,
                              ![i].pc = "idle"]
    /\ UNCHANGED <<sys_stdout, sys_stderr>>

\* __exit__ of instance i, the restoration: what the instance saved is put
\* back and its backups are dropped
PeerExitStreams(i) ==
    IF peers[i].outer_logs_disabled
    THEN /\ sys_stdout' = peers[i].stdout_bkp
         /\ sys_stderr' = peers[i].stderr_bkp
         /\ peers' = [peers EXCEPT ![i].stdout_bkp = NoStream,
                                   ![i].stderr_bkp = NoStream,
                                   ![i].pc = "idle"]
    ELSE /\ peers' = [peers EXCEPT ![i].pc = "idle"]
         /\ UNCHANGED <<sys_stdout, sys_stderr>>

\* __exit__ of instance i, called with the exception e its body raised or
\* with None: the streams are restored, then the record is emitted
PeerExit(i, e) ==
    /\ peers[i].pc = "active"
    /\ PeerExitStreams(i)
    /\ steps' = Append(steps, <<"exit", i>>)
    /\ log' = Append(log,
          IF e = NoneV
          THEN PeerRecord(i, "INFO", Str("success"), <<>>)
          ELSE PeerRecord(i, IF Truthy(peers[i].handle_error) THEN "WARNING" ELSE "ERROR",
                          Str("failed"), <<<<"exc", ExcInfo(e)>>>>))
    /\ raised' = IF e = NoneV \/ Truthy(peers[i].handle_error) THEN NoneV ELSE e
    /\ UNCHANGED <<configVars, extra, scopeVars, outer_logs_disabled, stdout, stderr,
                   stdout_bkp, stderr_bkp, at_entry, ctxVars, adapterVars,
                   renderVars, registryVars, decorVars, threadVars, frame, first_streams>>

InitRace ==
    \E gout \in SysOut, gerr \in SysErr, he \in {True, False},
       old \in [Peers -> BOOLEAN], so \in [Peers -> Sinks], se \in [Peers -> Sinks] :
        /\ InitWith("REVELLogger", <<"JSONFormatter">>, <<>>, False, FALSE,
                    NoStream, NoStream, gout, gerr)
        /\ _params = <<>>
        /\ out = <<>>
        /\ pretty = PrettyDefaults
        /\ NoCall
        /\ NoThreads
        /\ UnusedRegistry
        /\ peers = [i \in Peers |->
                       [outer_logs_disabled |-> old[i], handle_error |-> he,
                        stdout |-> PeerSink(i, so[i]), stderr |-> PeerSink(i, se[i]),
                        stdout_bkp |-> NoStream, stderr_bkp |-> NoStream,
                        pc |-> "idle"]]
        /\ steps = <<>>
        /\ first_streams = <<gout, gerr>>

NextRace ==
    \/ \E i \in Peers : PeerEnter(i)
    \/ \E i \in Peers, e \in {NoneV, Exc("ValueError", "bad input")} : PeerExit(i, e)

SpecRace == InitRace /\ [][NextRace]_vars

\* ---------------------------------------------------- claims on the scope
Last(q) == q[Len(q)]
CleanExitStep == pc = "active" /\ pc' = "idle"
FailExitStep == pc = "failing" /\ pc' = "idle"
OneMoreRecord == Len(log') = Len(log) + 1 /\ SubSeq(log', 1, Len(log)) = log
Override(bkp, default) == IF bkp # NoneV THEN bkp ELSE default

\* C1: every clean scope exit emits exactly one record, at INFO, whose
\* message is the success override set since the previous exit if there is
\* one and the default success message otherwise, and which carries no
\* exception metadata.
C1_CleanExitRecord ==
    [][CleanExitStep =>
        /\ OneMoreRecord
        /\ Last(log').level = "INFO"
        /\ Last(log').msg = Override(success_bkp, success_msg)
        /\ Keys(Last(log').extra) \cap {"exc", "error_type", "error_value"} = {}]_vars

\* C2: every exceptional scope exit emits exactly one record, WARNING when
\* handle_error is set and ERROR otherwise, with the failure override if
\* one is set and the default failure message otherwise; __exit__ returns
\* the suppress configuration, and the body's exception is swallowed when
\* that is true and propagates unchanged when it is false.
C2_FailExitRecord ==
    [][FailExitStep =>
        /\ OneMoreRecord
        /\ Last(log').level = (IF handle_error = True THEN "WARNING" ELSE "ERROR")
        /\ Last(log').msg = Override(fail_bkp, exc_msg)
        /\ exit_ret' = handle_error.s
        /\ raised' = (IF handle_error = True THEN NoneV ELSE in_flight)]_vars

\* C3: the record of an exceptional exit has, as context entries, the two
\* exception-metadata keys error_type = the exception's type name and
\* error_value = the exception's text.
C3_ExcMetadata ==
    [][(FailExitStep /\ Len(log') > Len(log)) =>
        LET cx == Last(log').extra
        IN /\ Has(cx, "error_type") /\ Get(cx, "error_type") = Str(in_flight.cls)
           /\ Has(cx, "error_value") /\ Get(cx, "error_value") = Str(in_flight.s)]_vars

\* C4: the overrides set by with_message are one-shot, for every override
\* value: the next scope exit, clean or exceptional, logs the override set
\* for its outcome (the default when none is set or fail was omitted) and
\* clears both overrides, so that a later scope without a new with_message
\* logs the defaults.
C4_OneShotOverride ==
    [][(CleanExitStep \/ FailExitStep) =>
        /\ success_bkp' = NoneV /\ fail_bkp' = NoneV
        /\ Len(log') = Len(log) + 1
        /\ Last(log').msg = (IF pc = "active"
                             THEN Override(success_bkp, success_msg)
                             ELSE Override(fail_bkp, exc_msg))]_vars


\* ------------------------------------------------- claims on the streams
Active == pc \in {"active", "failing"}
Exited == pc = "idle" /\ exit_ret # "none"

\* C5 as stated: with redirection enabled before entry, the global streams
\* are, while the scope is active, the sinks supplied at construction (the
\* discard sink by default), and after the exit, clean or exceptional, the
\* objects they were before entry.
C5_ConstructionSinks ==
    /\ (Active /\ at_entry.redirect) =>
           (sys_stdout = ctor_stdio[1] /\ sys_stderr = ctor_stdio[2])
    /\ (Exited /\ at_entry.redirect) =>
           (sys_stdout = at_entry.out /\ sys_stderr = at_entry.err)

\* C5 as amended: with redirection enabled before entry, the global streams
\* are, while the scope is active, the sinks the instance held at entry
\* (those last supplied at construction or to disable_outer_logs, the
\* discard sink where none was supplied), and after the exit, clean or
\* exceptional, the objects they were before entry.
C5_Redirection ==
    /\ (Active /\ at_entry.redirect) =>
           (sys_stdout = at_entry.sink_out /\ sys_stderr = at_entry.sink_err)
    /\ (Exited /\ at_entry.redirect) =>
           (sys_stdout = at_entry.out /\ sys_stderr = at_entry.err)

\* a scope that redirected a terminal to sink_b has exited by an exception
\* that propagates, and the terminal is back
C5_Witness ==
    /\ Exited /\ at_entry.redirect
    /\ raised = Exc("ValueError", "bad input")
    /\ at_entry.sink_out = "sink_b" /\ at_entry.sink_err = DevNull
    /\ at_entry.out = "tty" /\ sys_stdout = "tty" /\ sys_stderr = at_entry.err

\* ------------------------------------------- claims on context composition
\* the adapters an emission through adapter i passes, outermost first
RECURSIVE Chain(_)
Chain(i) == IF i = 0 THEN <<>> ELSE <<adapters[i]>> \o Chain(adapters[i].logger)

\* the context of record r as the four sources give it when applied in the
\* order persistent context, adapter bindings, call-site keywords,
\* exception metadata, a repeated key keeping its first position and
\* taking the later value
InClaimedOrder(r) ==
    LET persistent == IF kind = "REVELLogger" THEN <<<<LoggerName, r.pers>>>> ELSE <<>>
        bound == [j \in 1..Len(Chain(r.via)) |->
                     <<Chain(r.via)[j].name, Chain(r.via)[j].extra>>]
        callsite == SelectSeq(r.kw, LAMBDA e : e[1] # "exc")
        exception == SelectSeq(r.kw, LAMBDA e : e[1] = "exc")
    IN PutAll(PutAll(PutAll(persistent, bound), callsite), exception)

\* C6: in every emitted record the context sources are applied in the order
\* persistent context, adapter-bound context, call-site keywords, exception
\* metadata; a key contributed twice holds the value of the later source at
\* the position of its first occurrence.
C6_MergeOrder == \A i \in 1..Len(log) : log[i].extra = InClaimedOrder(log[i])

\* C7: over a base emitter with persistent context {env: prod}, an adapter
\* binding user_id=u2 can be stacked on one binding request_id=r1, and an
\* emission with amount=42 through the stack has the top-level context keys
\* env, request_id, user_id, amount, in that order and with those values.
C7_StackedScenario ==
    /\ ( /\ extra = Dict(<<<<"env", Str("prod")>>>>)
         /\ last_bind.n > 0 /\ last_bind.target > 0 /\ last_bind.name = "user_id"
         /\ adapters[last_bind.target].name = "request_id"
         /\ adapters[last_bind.target].logger = 0 )
       => last_bind.err = "none"
    /\ \A i \in 1..Len(log) :
         ( /\ log[i].pers = Dict(<<<<"env", Str("prod")>>>>)
           /\ log[i].kw = <<<<"amount", Num("42")>>>>
           /\ [j \in 1..Len(Chain(log[i].via)) |-> Chain(log[i].via)[j].name]
                  = <<"user_id", "request_id">> )
         => log[i].extra = << <<"env", Str("prod")>>, <<"request_id", Str("r1")>>,
                              <<"user_id", Str("u2")>>, <<"amount", Num("42")>> >>

\* C8: an adapter can be constructed around another adapter, to any depth,
\* and every record emitted through an adapter carries one bound key per
\* layer it passed, each with the value bound at that layer.
C8_Stacking ==
    /\ (last_bind.n > 0 /\ last_bind.target > 0) => last_bind.err = "none"
    /\ \A i \in 1..Len(log) : \A j \in 1..Len(Chain(log[i].via)) :
         LET a == Chain(log[i].via)[j]
         IN Has(log[i].extra, a.name) /\ Get(log[i].extra, a.name) = a.extra

\* the base emitter has a handler whose formatter has _params and add_param
CapableHandler ==
    \E i \in 1..Len(handlers) :
        handlers[i] \in {"JSONFormatter", "PrettyConsoleFormatter"}

\* C9: constructing a ContextLogger raises the configuration error
\* (AssertionError) exactly when the base emitter has no handler whose
\* formatter has the capability, and then no adapter is made; no emission
\* raises it.
C9_BindFailsFast ==
    [][ /\ (last_bind'.n # last_bind.n) =>
             /\ (raised'.cls = "AssertionError") <=> ~CapableHandler
             /\ (last_bind'.target = 0) =>
                    ((Len(adapters') = Len(adapters) + 1) <=> CapableHandler)
        /\ (Len(log') # Len(log)) => raised'.cls # "AssertionError" ]_vars

\* a construction over an emitter whose only handler has a plain
\* logging.Formatter was refused
C9_Witness ==
    /\ last_bind.n > 0 /\ last_bind.target = 0 /\ last_bind.err = "AssertionError"
    /\ handlers = <<"Formatter">> /\ adapters = <<>>
    /\ raised.cls = "AssertionError"

\* C10: a record emitted while the emitter has no persistent context holds
\* no placeholder for it: every key of its context comes from the call's
\* keywords or from an adapter binding, and none holds None.
C10_NoPlaceholder ==
    \A i \in 1..Len(log) :
        log[i].pers = NoneV =>
            /\ Keys(log[i].extra) \subseteq
                   Keys(log[i].kw) \cup
                   {Chain(log[i].via)[j].name : j \in 1..Len(Chain(log[i].via))}
            /\ \A j \in 1..Len(log[i].extra) : log[i].extra[j][2] # NoneV

\* ------------------------------------------------ claims on the rendering
JString(x) == [cls |-> "string", s |-> x, d |-> <<>>]

\* C11: in every record the JSONFormatter renders, the top-level keys
\* level, time and message are present and hold the record's severity
\* name, its timestamp and its message; no formatter default parameter,
\* persistent context, adapter binding or call-site keyword named level,
\* time or message replaces them.
C11_ReservedKeys ==
    \A i \in 1..Len(out) :
        ~Failed(out[i]) =>
            /\ {"level", "time", "message"} \subseteq Keys(out[i].d)
            /\ Get(out[i].d, "level") = JString(log[i].level)
            /\ Get(out[i].d, "time") = JString(formatTime(log[i]).s)
            /\ Get(out[i].d, "message") = JString(log[i].msg.s)

\* C14: constructing a ContextLogger for key K registers K, through
\* add_param, in the REVEL formatters of the underlying logger, and every
\* record those formatters render afterwards contains the field K.
C14_BindRegisters ==
    [][ /\ (Len(adapters') > Len(adapters)) => Has(_params', Last(adapters').name)
        /\ (Len(out') > Len(out) /\ ~Failed(Last(out'))) =>
               \A i \in 1..Len(adapters) : Has(Last(out').d, adapters[i].name) ]_vars

\* the document the fallback rule describes for value v: strings, numbers,
\* booleans and None as they are, mappings and sequences item by item, any
\* other value by its __json__ result if it has one and by its text if not
RECURSIVE Described(_)
Described(v) ==
    CASE v.cls = "str" -> JString(v.s)
      [] v.cls = "int" -> [cls |-> "number", s |-> v.s, d |-> <<>>]
      [] v.cls = "bool" -> [cls |-> IF v = True THEN "true" ELSE "false",
                            s |-> "", d |-> <<>>]
      [] v.cls = "NoneType" -> [cls |-> "null", s |-> "", d |-> <<>>]
      [] v.cls \in {"dict", "list"} ->
             [cls |-> IF v.cls = "dict" THEN "object" ELSE "array", s |-> "",
              d |-> [i \in 1..Len(v.d) |-> <<v.d[i][1], Described(v.d[i][2])>>]]
      [] v.cls = "Point" -> Described(Dict(<<<<"x", Num(v.s)>>>>))
      [] OTHER -> JString(v.s)

\* C19: the JSONFormatter never fails, and every context value, at every
\* depth inside mappings and sequences, that is not a string, number,
\* boolean, None, mapping or sequence is rendered as its __json__ result
\* when it has one and as its textual representation otherwise.
C19_NeverFails ==
    \A i \in 1..Len(out) :
        /\ ~Failed(out[i])
        /\ \A j \in 1..Len(log[i].extra) :
               Get(out[i].d, log[i].extra[j][1]) = Described(log[i].extra[j][2])

Live == {i \in 1..MaxInst : instances[i].st = "live"}
Disposed == {i \in 1..MaxInst : instances[i].st \in {"dropped", "freed"}}

\* C13: right after set_level(L) every instance constructed and not
\* disposed has level L, and the registry holds each such instance exactly
\* once and no disposed instance.
C13_Registry ==
    reg_op.op = "set_level" =>
        /\ \A i \in Live : instances[i].level = reg_op.level
        /\ \A i \in Live : Cardinality({j \in 1..Len(_current_loggers) :
                                          _current_loggers[j] = i}) = 1
        /\ \A j \in 1..Len(_current_loggers) : _current_loggers[j] \notin Disposed

\* -------------------------------------------- claims on the tree renderer
\* a line without its style codes, runs of spaces joined
RECURSIVE JoinSpaces(_)
JoinSpaces(line) ==
    IF Len(line) < 2 THEN line
    ELSE IF line[1].k = "sp" /\ line[2].k = "sp"
         THEN JoinSpaces(<<Sp(line[1].n + line[2].n)>> \o Tail(Tail(line)))
         ELSE <<line[1]>> \o JoinSpaces(Tail(line))
Stripped(text) ==
    [i \in 1..Len(text) |-> JoinSpaces(SelectSeq(text[i], LAMBDA a : a.k # "code"))]

\* C17: for every record, messages with line breaks included, and every
\* setting of show_logger_name and context_indent, the output with
\* use_color, once the style codes are removed, is the output without
\* use_color, byte for byte.
C17_ColorNeutral ==
    \A i \in 1..Len(out) : Stripped(out[i].color) = Stripped(out[i].plain)

\* the position of a key in the ascending order of the keys
Rank(k) == CHOOSE p \in 1..Len(KeyOrder) : KeyOrder[p] = k
Ascending(ks) == \A a, b \in 1..Len(ks) : a < b => Rank(ks[a]) < Rank(ks[b])
NoCodes(text) == [i \in 1..Len(text) |-> SelectSeq(text[i], LAMBDA a : a.k # "code")]

\* the lines of text after the message msg have the shape of the context
\* block of context cx, for the indent width ci
BlockShape(text, msg, cx, ci) ==
    LET block == SubSeq(text, Len(splitlines(msg)) + 1, Len(text))
        scalar == {k \in Keys(cx) : Get(cx, k).cls \in {"str", "int", "bool", "NoneType"}}
        complex == Keys(cx) \ scalar
        IsOpener(line) ==
            Len(line) = 4 /\ line[1] = Sp(ci) /\ line[2] = Sp(3) /\ line[4] = Txt(":")
        openers == SelectSeq(block, IsOpener)
        entries == SubSeq(block[1], 4, Len(block[1]))
        shown == [j \in 1..Cardinality(scalar) |-> entries[4 * j - 3].s]
    IN /\ cx = <<>> => block = <<>>
       /\ cx # <<>> =>
            /\ block # <<>>
            /\ SubSeq(block[1], 1, 2) = <<Sp(ci), Txt("bullet")>>
            /\ scalar = {} => Len(block[1]) = 2
            /\ scalar # {} =>
                 /\ block[1][3] = Sp(1)
                 /\ Len(entries) = 4 * Cardinality(scalar) - 1
                 /\ {shown[j] : j \in 1..Len(shown)} = scalar
                 /\ Ascending(shown)
                 /\ \A j \in 1..Len(shown) :
                        /\ SubSeq(entries, 4 * j - 3, 4 * j - 1) =
                               <<Txt(shown[j]), Txt("="), Repr(Get(cx, shown[j]))>>
                        /\ j < Len(shown) => entries[4 * j] = Sp(1)
            /\ complex = {} => Len(block) = 1
            /\ Len(openers) = Cardinality(complex)
            /\ {openers[j][3].s : j \in 1..Len(openers)} = complex
            /\ Ascending([j \in 1..Len(openers) |-> openers[j][3].s])
            /\ complex # {} => IsOpener(block[2])
            /\ \A p \in 1..Len(block) :
                   IsOpener(block[p]) => p < Len(block) /\ ~IsOpener(block[p + 1])

\* C18: the context block of the tree renderer: nothing for an empty
\* context; for scalar entries only, one bullet line with every entry as
\* key=value in ascending key order; with complex entries, that bullet line
\* (bare when there is no scalar entry) followed, in ascending key order,
\* by one opener and the dump of the value per complex key.
C18_ContextBlock ==
    [][Len(out') > Len(out) =>
        LET cx == PutAll(_params, Last(log').extra)
        IN /\ BlockShape(Last(out').plain, Last(log').msg.s, cx, pretty.context_indent)
           /\ BlockShape(NoCodes(Last(out').color), Last(log').msg.s, cx,
                         pretty.context_indent)]_vars

\* a context of two scalar and three complex entries was rendered after a
\* message of two lines, which gave nine lines
C18_Witness ==
    /\ Len(out) = 1
    /\ kind = "REVELLogger" /\ extra = Dict(<<<<"env", Str("prod")>>>>)
    /\ _params = <<<<"app", Str("svc")>>>>
    /\ log[1].msg = Str("first\nsecond")
    /\ Keys(log[1].extra) = {"price", "amount", "items", "base"}
    /\ Len(out[1].plain) = 9

\* ---------------------------------------------- claims on the decorators
\* the arguments of f(a, b=2) as bound for the call, defaults applied
Bound(args) ==
    Dict(<<<<"a", args[1]>>, <<"b", IF Len(args) = 2 THEN args[2] ELSE Num("2")>>>>)
BodyDone(d) == call.dec = d /\ call.phase = "body" /\ call'.phase = "done"

\* C15: under error_logs(logger, handle_error), when the call raises,
\* exactly one ERROR record is emitted, with the exception's text as its
\* message and the function name and the bound arguments in its context,
\* and the wrapper returns None if handle_error is true and raises the
\* exception again if it is false; when the call does not raise, no record
\* is emitted and the value is returned as it is.
C15_ErrorLogs ==
    [][BodyDone("error_logs") =>
        LET r == call'.result
        IN IF r.cls \in BaseExceptions
           THEN /\ OneMoreRecord
                /\ Last(log').level = "ERROR"
                /\ Last(log').msg = Str(r.s)
                /\ Has(Last(log').extra, "function_name")
                /\ Get(Last(log').extra, "function_name") = Str(FuncName)
                /\ Has(Last(log').extra, "args")
                /\ call.args # <<>> => Get(Last(log').extra, "args") = Bound(call.args)
                /\ IF call.handle_error THEN ret' = NoneV /\ raised' = NoneV
                   ELSE raised' = r
           ELSE /\ log' = log
                /\ ret' = r
                /\ raised' = NoneV]_vars

\* C16: under loggable(logger), for a plain logger, a REVELLogger and a
\* ContextLogger alike, a call emits exactly one record, INFO "func f
\* called", before the body runs; the context of the record has the bound
\* arguments, defaults applied, under the key args; the body emits nothing
\* and what it returns is returned as it is.
C16_Loggable ==
    [][ /\ (call'.dec = "loggable" /\ call.phase = "done" /\ call'.phase = "body") =>
             /\ OneMoreRecord
             /\ Last(log').level = "INFO"
             /\ Last(log').msg = Str("func f called")
             /\ Has(Last(log').extra, "args")
             /\ Get(Last(log').extra, "args") = Bound(call'.args)
        /\ BodyDone("loggable") =>
             /\ log' = log
             /\ call'.result.cls \notin BaseExceptions =>
                    (ret' = call'.result /\ raised' = NoneV) ]_vars

\* ------------------------------------------------- claims on the threads
\* C20: when two threads call add_param on the same emitter, whatever the
\* interleaving and whatever the persistent context at the start (absent
\* included), both pairs are in the persistent context once both calls
\* have returned, and the context a concurrent emission renders is made of
\* whole pairs: those of the start and those added.
C20_NoLostUpdate ==
    /\ (\A t \in Threads : threads[t].pc = "done") =>
           /\ extra.cls = "dict"
           /\ \A t \in Threads :
                  /\ Has(extra.d, ThreadPair[t][1])
                  /\ Get(extra.d, ThreadPair[t][1]) = ThreadPair[t][2]
    /\ \A i \in 1..Len(log) :
           \A j \in 1..Len(log[i].pers.d) :
               \/ <<log[i].pers.d[j]>> \in InitExtras
               \/ \E t \in Threads : log[i].pers.d[j] = ThreadPair[t]

\* ------------------------------------------------ claims on the two scopes
\* the calls made so far are exactly those of order o
Order(o) == steps = o

\* C21: two instances that both redirect the global streams race: after
\* the calls enter i, enter j, exit i, exit j both scopes have exited and
\* the global streams are not the objects they were before the first entry
\* (they are the sinks of i); after the nested calls enter i, enter j,
\* exit j, exit i the streams are the objects they were before.
C21_StreamRace ==
    \A i \in Peers : \A j \in Peers \ {i} :
        /\ ( /\ Order(<<<<"enter", i>>, <<"enter", j>>, <<"exit", i>>, <<"exit", j>>>>)
             /\ peers[i].outer_logs_disabled
             /\ peers[j].outer_logs_disabled )
           => ( /\ peers[i].pc = "idle" /\ peers[j].pc = "idle"
                /\ sys_stdout = peers[i].stdout /\ sys_stdout # first_streams[1]
                /\ sys_stderr = peers[i].stderr /\ sys_stderr # first_streams[2] )
        /\ Order(<<<<"enter", i>>, <<"enter", j>>, <<"exit", j>>, <<"exit", i>>>>)
           => ( /\ peers[i].pc = "idle" /\ peers[j].pc = "idle"
                /\ <<sys_stdout, sys_stderr>> = first_streams )

C21_Witness ==
    /\ Order(<<<<"enter", "a">>, <<"enter", "b">>, <<"exit", "a">>, <<"exit", "b">>>>)
    /\ peers["a"].outer_logs_disabled /\ peers["b"].outer_logs_disabled
    /\ <<sys_stdout, sys_stderr>> # first_streams

\* ------------------------------------------------ claims on empty values
\* value is an empty mapping or sequence, or holds one at some depth
RECURSIVE HoldsEmpty(_)
HoldsEmpty(value) ==
    /\ value.cls \in {"dict", "list"}
    /\ \/ value.d = <<>>
       \/ \E m \in 1..Len(value.d) : HoldsEmpty(value.d[m][2])

\* the lines the dump of a complex value has when an empty mapping or
\* sequence has none: one per scalar member, an opener and its dump per
\* complex member, one for a value that is neither mapping nor sequence
RECURSIVE Dumped(_)
Dumped(value) ==
    LET RECURSIVE from(_)
        from(m) == IF m > Len(value.d) THEN 0
                   ELSE (IF _is_scalar(value.d[m][2]) THEN 1
                         ELSE 1 + Dumped(value.d[m][2])) + from(m + 1)
    IN IF value.cls \in {"dict", "list"} THEN from(1) ELSE 1

\* the lines of the context block of context cx: the bullet line, then an
\* opener and the dump per complex entry
RECURSIVE BlockLines(_)
BlockLines(cx) ==
    IF cx = <<>> THEN 0
    ELSE (IF _is_scalar(cx[1][2]) THEN 0 ELSE 1 + Dumped(cx[1][2])) +
         (IF Len(cx) = 1 THEN 1 ELSE BlockLines(Tail(cx)))

\* C22: in the tree renderer a complex context entry that is, or holds at
\* any depth, an empty mapping or an empty sequence is rendered with the
\* opener of the empty value followed by no dumped line: the output has
\* no empty line and exactly the lines of the message, the bullet line,
\* the openers and the lines of the members.
C22_EmptyValues ==
    [][Len(out') > Len(out) =>
        LET cx == PutAll(_params, Last(log').extra)
            lines == Len(splitlines(Last(log').msg.s)) + BlockLines(cx)
        IN (\E e \in 1..Len(cx) : HoldsEmpty(cx[e][2])) =>
               /\ Len(Last(out').plain) = lines
               /\ Len(Last(out').color) = lines
               /\ \A n \in 1..Len(Last(out').plain) : Last(out').plain[n] # <<>>
               /\ \A n \in 1..Len(Last(out').color) : Last(out').color[n] # <<>>]_vars

\* ------------------------------------------- claims on the scope's context
\* the pairs of a persistent context, none for an absent one
Pairs(v) == IF v.cls = "dict" THEN {v.d[m] : m \in 1..Len(v.d)} ELSE {}

\* the step is a return of __exit__
Exits == pc # "idle" /\ pc' = "idle"

\* C23: a scope leaves the persistent context as it found it: after
\* __exit__ the persistent context is the one __enter__ found plus exactly
\* the pairs add_param set inside the scope, whatever name was given to
\* with_context_params; a key that was there before entry is still there
\* with its value.
C23_ScopeFrame ==
    [][Exits =>
         Pairs(extra') = Pairs(Dict(PutAll(IF frame.before.cls = "dict"
                                           THEN frame.before.d ELSE <<>>,
                                           frame.added)))]_vars

\* C24: scope-bound context is visible exactly during the scope: __enter__
\* succeeds, also on an emitter built without persistent context; a record
\* emitted inside the scope has the params under the name in the
\* persistent context; the record of __exit__ has not, nor has the
\* persistent context after it; and a scope entered with no name set
\* installs nothing.
C24_ScopeBound ==
    [][ /\ Enter => /\ pc' = "active"
                    /\ raised' = NoneV
                    /\ Truthy(context_params_name) =>
                           /\ extra'.cls = "dict"
                           /\ Has(extra'.d, context_params_name.s)
                           /\ Get(extra'.d, context_params_name.s) = context_params
                    /\ ~Truthy(context_params_name) => extra' = extra
        /\ (pc = "active" /\ pc' = "active" /\ Len(log') > Len(log)
            /\ Truthy(frame.name) /\ context_params_name = frame.name
            /\ Last(log').via = 0) =>
               /\ Last(log').pers.cls = "dict"
               /\ Has(Last(log').pers.d, frame.name.s)
               /\ Get(Last(log').pers.d, frame.name.s) = context_params
        /\ (Exits /\ Truthy(frame.name) /\ context_params_name = frame.name) =>
               /\ raised' = NoneV
               /\ Len(log') = Len(log) + 1
               /\ \A e \in Pairs(Last(log').pers) : e[1] # frame.name.s
               /\ \A e \in Pairs(extra') : e[1] # frame.name.s
               /\ ~Truthy(context_params_name') ]_vars

\* ---------------------------------------- claims on the late redirection
\* C25: if redirection was not enabled when the scope was entered, its
\* exit leaves both global streams as they were at entry, also when
\* disable_outer_logs is called between entry and exit; that call changes
\* no global stream itself, and the redirection it enables takes effect at
\* the next scope entry.
C25_LateRedirection ==
    [][ /\ (Exits /\ ~at_entry.redirect) =>
               (sys_stdout' = at_entry.out /\ sys_stderr' = at_entry.err)
        /\ (pc # "idle" /\ ~outer_logs_disabled /\ outer_logs_disabled') =>
               UNCHANGED <<sys_stdout, sys_stderr>>
        /\ (pc = "idle" /\ pc' = "active" /\ outer_logs_disabled) =>
               (sys_stdout' = stdout /\ sys_stderr' = stderr) ]_vars

====
